---------------------------- MODULE Spec2Model ----------------------------
(***************************************************************************)
(* Model of src/src/data_cleaning.py: the sales-data cleaning pipeline     *)
(* clean_column_names -> strip_whitespace -> fix_numeric_values ->         *)
(* handle_missing_values -> remove_invalid_rows.                           *)
(*                                                                         *)
(* Representation.                                                         *)
(*  - A number is an integer count of tenths (0.2 is 2, 200 is 2000), so   *)
(*    the thresholds 1, 100 and 1_000_000 of the code are Fixed(1),        *)
(*    Fixed(100) and Fixed(1000000).                                       *)
(*  - A text (a cell's string, a column label) is a tuple of one-character *)
(*    strings, so that strip, lower, replace, str() and the numeric parser *)
(*    are computed character by character.                                 *)
(*  - A cell is a tagged value: number, text or null (NaN / None / NA).    *)
(*  - A table is a record of its column labels and its rows; a row carries *)
(*    its pandas index label idx, which filtering keeps.                   *)
(*  - pandas semantics are those of pandas 1.x / 2.x (object dtype for     *)
(*    text columns, Series.replace(inplace=True) writing through).         *)
(***************************************************************************)
EXTENDS Integers, Sequences, FiniteSets, TLC

VARIABLES
    pc,       \* position of the caller: which step runs next
    start,    \* the value the run started from (never changes)
    argOld,   \* contents of the object passed to the last step, at entry
    arg,      \* contents of that same object after the step returned
    df,       \* the value the last step returned (df_clean), NoTable on raise
    same,     \* TRUE iff the returned object is the argument object itself
    err,      \* exception raised by the last step, "none" otherwise
    mid,      \* remove_invalid_rows' local df right after the swap step
    report    \* the counts remove_invalid_rows computes

vars == <<pc, start, argOld, arg, df, same, err, mid, report>>

(***************************************************************************)
(* Bounds                                                                  *)
(***************************************************************************)
MaxRows == 2

(***************************************************************************)
(* Cells and numbers                                                       *)
(***************************************************************************)
Fixed(n) == n * 10

Null == [t |-> "null", v |-> 0, s |-> <<>>]

Num(n) == [t |-> "num", v |-> n, s |-> <<>>]

Text(s) == [t |-> "text", v |-> 0, s |-> s]

IsNull(c) == c.t = "null"

IsNum(c) == c.t = "num"

IsText(c) == c.t = "text"

\* Comparisons of a float cell with a number: every comparison with NaN is
\* False, and the columns compared are numeric after to_numeric.
Gt(c, n) == IsNum(c) /\ c.v > n

Lt(c, n) == IsNum(c) /\ c.v < n

Ge(c, n) == IsNum(c) /\ c.v >= n

(***************************************************************************)
(* Texts                                                                   *)
(***************************************************************************)
DigitChars == <<"0", "1", "2", "3", "4", "5", "6", "7", "8", "9">>

UpperChars ==
    <<"A", "B", "C", "D", "E", "F", "G", "H", "I", "J", "K", "L", "M",
      "N", "O", "P", "Q", "R", "S", "T", "U", "V", "W", "X", "Y", "Z">>

LowerChars ==
    <<"a", "b", "c", "d", "e", "f", "g", "h", "i", "j", "k", "l", "m",
      "n", "o", "p", "q", "r", "s", "t", "u", "v", "w", "x", "y", "z">>

IsDigit(c) == \E i \in 1..Len(DigitChars) : DigitChars[i] = c

DigitValue(c) == (CHOOSE i \in 1..Len(DigitChars) : DigitChars[i] = c) - 1

\* str.lower() on one character
LowerChar(c) ==
    IF \E i \in 1..Len(UpperChars) : UpperChars[i] = c
    THEN LowerChars[CHOOSE i \in 1..Len(UpperChars) : UpperChars[i] = c]
    ELSE c

\* str.lower()
StrLower(s) == [i \in 1..Len(s) |-> LowerChar(s[i])]

RECURSIVE StrLStrip(_)
StrLStrip(s) ==
    IF s # <<>> /\ Head(s) = " " THEN StrLStrip(Tail(s)) ELSE s

RECURSIVE StrRStrip(_)
StrRStrip(s) ==
    IF s # <<>> /\ s[Len(s)] = " "
    THEN StrRStrip(SubSeq(s, 1, Len(s) - 1))
    ELSE s

\* str.strip(): leading and trailing whitespace removed
StrStrip(s) == StrRStrip(StrLStrip(s))

ReplaceSpaceChar(c) == IF c = " " THEN "_" ELSE c

\* str.replace(" ", "_")
StrReplaceSpace(s) == [i \in 1..Len(s) |-> ReplaceSpaceChar(s[i])]

IsNotQuote(c) == c # "\""

\* str.replace('"', ""): every double quote removed
StrRemoveQuotes(s) == SelectSeq(s, IsNotQuote)

RECURSIVE NatDigits(_)
NatDigits(n) ==
    IF n < 10
    THEN <<DigitChars[n + 1]>>
    ELSE NatDigits(n \div 10) \o <<DigitChars[(n % 10) + 1]>>

\* str(x) of a float x held in tenths: "200.0", "0.2", "-5.0"
FormatFloat(v) ==
    LET a == IF v < 0 THEN -v ELSE v
    IN  (IF v < 0 THEN <<"-">> ELSE <<>>)
          \o NatDigits(a \div 10) \o <<".">> \o NatDigits(a % 10)

\* astype(str) of one cell of an object column: a string stays, a float is
\* printed, a missing value becomes the string "nan"
AsStr(c) ==
    CASE IsText(c) -> c.s
      [] IsNum(c)  -> FormatFloat(c.v)
      [] OTHER     -> <<"n", "a", "n">>

RECURSIVE DigitsValue(_)
DigitsValue(s) ==
    IF s = <<>> THEN 0
    ELSE DigitsValue(SubSeq(s, 1, Len(s) - 1)) * 10 + DigitValue(s[Len(s)])

IsDot(c) == c = "."

IsNotDot(c) == c # "."

\* The number a string parses to under pd.to_numeric(errors="coerce"), or
\* Null when it does not parse: an optional minus sign, digits with at most
\* one decimal point, at least one digit.  Strings of the model carry at
\* most one digit after the point (numbers are tenths).
ParseNumber(s) ==
    LET neg  == s # <<>> /\ Head(s) = "-"
        body == IF neg THEN Tail(s) ELSE s
        dots == SelectSeq(body, IsDot)
        digs == SelectSeq(body, IsNotDot)
        p    == IF dots = <<>> THEN Len(body) + 1
                ELSE CHOOSE i \in 1..Len(body) : body[i] = "."
        ip   == SubSeq(body, 1, p - 1)
        fp   == SubSeq(body, p + 1, Len(body))
        mag  == DigitsValue(ip) * 10
                  + (IF fp = <<>> THEN 0 ELSE DigitValue(fp[1]))
    IN  IF \/ digs = <<>>
           \/ Len(dots) > 1
           \/ Len(fp) > 1
           \/ \E i \in 1..Len(digs) : ~IsDigit(digs[i])
        THEN Null
        ELSE Num(IF neg THEN -mag ELSE mag)

(***************************************************************************)
(* Tables                                                                  *)
(***************************************************************************)
ColPrice == <<"p", "r", "i", "c", "e">>

ColQty == <<"q", "t", "y">>

ColDateSold == <<"d", "a", "t", "e", "_", "s", "o", "l", "d">>

Table(cols, rows) == [kind |-> "table", cols |-> cols, rows |-> rows]

\* a value that is no DataFrame (a list, None, ...)
NotATable == [kind |-> "other", cols |-> <<>>, rows |-> <<>>]

\* no value: the call raised
NoTable == [kind |-> "none", cols |-> <<>>, rows |-> <<>>]

\* name in df.columns
HasCol(t, name) == \E j \in 1..Len(t.cols) : t.cols[j] = name

\* position of the column labelled name
ColOf(t, name) == CHOOSE j \in 1..Len(t.cols) : t.cols[j] = name

\* df[name] of one row
Get(t, r, name) == r.cells[ColOf(t, name)]

\* len(df)
Count(t) == Len(t.rows)

\* dtype of column j is object: it holds a string (read_csv / read_excel
\* give a column of numbers and blanks a float dtype)
IsObjectCol(t, j) == \E i \in 1..Len(t.rows) : IsText(t.rows[i].cells[j])

(***************************************************************************)
(* clean_column_names                                                      *)
(***************************************************************************)
CleanName(s) == StrReplaceSpace(StrLower(StrStrip(s)))

clean_column_names(t) ==
    [t EXCEPT !.cols = [j \in 1..Len(t.cols) |-> CleanName(t.cols[j])]]

(***************************************************************************)
(* strip_whitespace                                                        *)
(***************************************************************************)
StripCell(c) == Text(StrRemoveQuotes(StrStrip(AsStr(c))))

strip_whitespace(t) ==
    [t EXCEPT !.rows =
        [i \in 1..Len(t.rows) |->
            [t.rows[i] EXCEPT !.cells =
                [j \in 1..Len(t.cols) |->
                    IF IsObjectCol(t, j)
                    THEN StripCell(t.rows[i].cells[j])
                    ELSE t.rows[i].cells[j]]]]]

(***************************************************************************)
(* fix_numeric_values                                                      *)
(***************************************************************************)
\* Series.replace("-", pd.NA) on one cell
ReplaceDash(c) == IF c = Text(<<"-">>) THEN Null ELSE c

\* pd.to_numeric(errors="ignore") on one cell: what does not parse stays
ToNumeric_Ignore(c) ==
    CASE IsNum(c)  -> c
      [] IsText(c) -> IF ParseNumber(c.s) = Null THEN c ELSE ParseNumber(c.s)
      [] OTHER     -> Null

\* pd.to_numeric(errors="coerce") on one cell
ToNumeric(c) ==
    CASE IsNum(c)  -> c
      [] IsText(c) -> ParseNumber(c.s)
      [] OTHER     -> Null

ReplaceDashCol(t, name) ==
    [t EXCEPT !.rows =
        [i \in 1..Len(t.rows) |->
            [t.rows[i] EXCEPT !.cells[ColOf(t, name)] = ReplaceDash(@)]]]

\* df[name] = pd.to_numeric(df[name], errors="coerce")
ToNumericCol(t, name) ==
    [t EXCEPT !.rows =
        [i \in 1..Len(t.rows) |->
            [t.rows[i] EXCEPT !.cells[ColOf(t, name)] = ToNumeric(@)]]]

fix_numeric_values(t) ==
    LET a == IF HasCol(t, ColPrice) THEN ReplaceDashCol(t, ColPrice) ELSE t
        b == IF HasCol(a, ColQty) THEN ReplaceDashCol(a, ColQty) ELSE a
        c == IF HasCol(b, ColPrice) THEN ToNumericCol(b, ColPrice) ELSE b
    IN  IF HasCol(c, ColQty) THEN ToNumericCol(c, ColQty) ELSE c

(***************************************************************************)
(* handle_missing_values                                                   *)
(***************************************************************************)
\* required = [c for c in ("price", "qty", "date_sold") if c in df.columns]
Required(t) == {n \in {ColPrice, ColQty, ColDateSold} : HasCol(t, n)}

\* df.dropna(subset=required)
DropNa(t, required) ==
    LET Keep(r) == \A n \in required : ~IsNull(Get(t, r, n))
    IN  [t EXCEPT !.rows = SelectSeq(t.rows, Keep)]

\* dropna over price and qty alone
handle_missing_values_PriceQtyOnly(t) ==
    IF Required(t) \ {ColDateSold} # {}
    THEN DropNa(t, Required(t) \ {ColDateSold})
    ELSE t

handle_missing_values(t) ==
    IF Required(t) # {} THEN DropNa(t, Required(t)) ELSE t

(***************************************************************************)
(* remove_invalid_rows                                                     *)
(***************************************************************************)
SMALL_PRICE == Fixed(1)

LARGE_QTY == Fixed(100)

OUTLIER == Fixed(1000000)

\* swap_mask with qty > 100, as the docstring words it
SwapMask_StrictQty(p, q) ==
    /\ ~IsNull(p)
    /\ ~IsNull(q)
    /\ Lt(p, SMALL_PRICE)
    /\ Gt(q, LARGE_QTY)
    /\ Gt(q, p.v * 10)

\* swap_mask of one row (p, q the coerced price and qty)
SwapMask(p, q) ==
    /\ ~IsNull(p)
    /\ ~IsNull(q)
    /\ Lt(p, SMALL_PRICE)
    /\ Ge(q, LARGE_QTY)
    /\ Gt(q, p.v * 10)        \* qty > price * 10, both sides in tenths

\* the assignment without .values: pandas aligns the right-hand side on the
\* column labels and every row keeps its price and qty
SwapRow_Aligned(t, r) == r

\* df.loc[swap_mask, ["price", "qty"]] = df.loc[swap_mask, ["qty", "price"]].values
SwapRow(t, r) ==
    IF SwapMask(Get(t, r, ColPrice), Get(t, r, ColQty))
    THEN [r EXCEPT !.cells[ColOf(t, ColPrice)] = Get(t, r, ColQty),
                   !.cells[ColOf(t, ColQty)]   = Get(t, r, ColPrice)]
    ELSE r

SwapStep(t) == [t EXCEPT !.rows = [i \in 1..Len(t.rows) |-> SwapRow(t, t.rows[i])]]

\* swapped = int(swap_mask.sum())
SwapCount(t) ==
    Cardinality({i \in 1..Len(t.rows) :
        SwapMask(Get(t, t.rows[i], ColPrice), Get(t, t.rows[i], ColQty))})

\* mask_valid with >= 0, the rule of the simpler variants of the script
MaskValid_NonNegative(t, r) ==
    Ge(Get(t, r, ColPrice), 0) /\ Ge(Get(t, r, ColQty), 0)

\* mask_valid of one row
MaskValid(t, r) == Gt(Get(t, r, ColPrice), 0) /\ Gt(Get(t, r, ColQty), 0)

\* outlier_mask of one row
OutlierMask(t, r) ==
    Gt(Get(t, r, ColPrice), OUTLIER) \/ Gt(Get(t, r, ColQty), OUTLIER)

\* df[mask_valid]
FilterValid(t) ==
    LET Keep(r) == MaskValid(t, r)
    IN  [t EXCEPT !.rows = SelectSeq(t.rows, Keep)]

\* the outlier rows counted but left in the table
FilterOutliers_Skipped(t) == t

\* df[~outlier_mask]
FilterOutliers(t) ==
    LET Keep(r) == ~OutlierMask(t, r)
    IN  [t EXCEPT !.rows = SelectSeq(t.rows, Keep)]

\* drop_duplicates(keep="last")
RECURSIVE DropDupRows_KeepLast(_)
DropDupRows_KeepLast(rows) ==
    IF rows = <<>> THEN <<>>
    ELSE LET rest == DropDupRows_KeepLast(Tail(rows))
         IN  IF \E k \in 1..Len(rest) : rest[k].cells = Head(rows).cells
             THEN rest
             ELSE <<Head(rows)>> \o rest

\* DataFrame.drop_duplicates(): a row equal in every column to an earlier
\* row is dropped (keep="first"); the index label is not compared
RECURSIVE DropDupRows(_)
DropDupRows(rows) ==
    IF rows = <<>> THEN <<>>
    ELSE LET init == DropDupRows(SubSeq(rows, 1, Len(rows) - 1))
             last == rows[Len(rows)]
         IN  IF \E k \in 1..Len(init) : init[k].cells = last.cells
             THEN init
             ELSE Append(init, last)

drop_duplicates(t) == [t EXCEPT !.rows = DropDupRows(t.rows)]

\* removed_missing_or_nonpositive = int((~mask_valid).sum())
CountInvalid(t) ==
    Cardinality({i \in 1..Len(t.rows) : ~MaskValid(t, t.rows[i])})

\* removed_outliers = int(outlier_mask.sum())
CountOutliers(t) ==
    Cardinality({i \in 1..Len(t.rows) : OutlierMask(t, t.rows[i])})

NoReport ==
    [initial_count |-> 0, swapped |-> 0, removed_missing_or_nonpositive |-> 0,
     removed_outliers |-> 0, duplicates_removed |-> 0, final_count |-> 0]

Raise(e) == [err |-> e, df |-> NoTable, mid |-> NoTable, report |-> NoReport]

\* no isinstance test before the column test
IsDataFrame_Unchecked(x) == TRUE

\* isinstance(df, pd.DataFrame)
IsDataFrame(x) == x.kind = "table"

\* "price" not in df.columns or "qty" not in df.columns
MissingRequired(x) == ~HasCol(x, ColPrice) \/ ~HasCol(x, ColQty)

\* The whole function: the exception or the returned table, with the local
\* df after the swap step and the counts of the summary.
remove_invalid_rows(x) ==
    IF ~IsDataFrame(x) THEN Raise("TypeError")
    ELSE IF MissingRequired(x) THEN Raise("KeyError")
    ELSE LET c  == ToNumericCol(ToNumericCol(x, ColPrice), ColQty)
             sw == IF SwapCount(c) # 0 THEN SwapStep(c) ELSE c
             v  == FilterValid(sw)
             o  == IF CountOutliers(v) # 0 THEN FilterOutliers(v) ELSE v
             d  == drop_duplicates(o)
         IN  [err |-> "none", df |-> d, mid |-> sw,
              report |->
                [initial_count |-> Count(x),
                 swapped |-> SwapCount(c),
                 removed_missing_or_nonpositive |-> CountInvalid(sw),
                 removed_outliers |-> CountOutliers(v),
                 duplicates_removed |-> Count(o) - Count(d),
                 final_count |-> Count(d)]]

\* without df.copy(): the coercion and the swap are assigned on the caller's
\* table (the filters that follow rebind the local name)
CallerTableAfter_NoCopy(x) ==
    IF remove_invalid_rows(x).err = "none" THEN remove_invalid_rows(x).mid ELSE x

\* The caller's table after remove_invalid_rows(x) returned or raised:
\* the function rebinds df = df.copy() before it assigns anything
CallerTableAfter(x) == x

(***************************************************************************)
(* Inputs                                                                  *)
(***************************************************************************)
TDash == Text(<<"-">>)

TAbc == Text(<<"a", "b", "c">>)

T02 == Text(<<"0", ".", "2">>)

T200 == Text(<<"2", "0", "0">>)

TPad7 == Text(<<" ", "7", " ">>)

TQuoted4 == Text(<<"\"", "4", "\"">>)

TDate == Text(<<"1", "/", "5">>)

\* Header rows of a raw file, with the cells (price, qty, date) each holds
RawHeaders ==
    { [cols |-> <<ColPrice, ColQty, ColDateSold>>, sel |-> <<1, 2, 3>>],
      [cols |-> << <<" ", "P", "r", "i", "c", "e">>, <<"Q", "T", "Y", " ">>,
                   <<"D", "a", "t", "e", " ", "S", "o", "l", "d">> >>,
       sel |-> <<1, 2, 3>>],
      [cols |-> <<ColPrice, ColQty>>, sel |-> <<1, 2>>],
      [cols |-> << <<"P", "r", "i", "c", "e">>,
                   <<"d", "a", "t", "e", " ", "s", "o", "l", "d">> >>,
       sel |-> <<1, 3>>] }

\* Headers of the tables handed to a single step
CleanHeaders ==
    { [cols |-> <<ColPrice, ColQty, ColDateSold>>, sel |-> <<1, 2, 3>>],
      [cols |-> <<ColPrice, ColDateSold>>, sel |-> <<1, 3>>],
      [cols |-> <<ColQty, ColDateSold>>, sel |-> <<2, 3>>] }

FullHeader == [cols |-> <<ColPrice, ColQty, ColDateSold>>, sel |-> <<1, 2, 3>>]

\* (price, qty) cells of a raw file: strings as read_csv leaves them,
\* numbers and strings side by side as read_excel leaves them
RawPairs ==
    { <<T02, T200>>,
      <<Num(50), Num(20)>>,
      <<Num(2), Num(2000)>>,
      <<Num(2000), Num(2)>>,
      <<TDash, Num(30)>>,
      <<Null, Num(2000)>>,
      <<TPad7, TQuoted4>>,
      <<Num(-50), TAbc>> }

\* (price, qty) cells already numeric or missing
NumericPairs ==
    { <<Num(2), Num(2000)>>,                    \* 0.2, 200: swapped
      <<Num(2000), Num(2)>>,                    \* 200, 0.2
      <<Num(5), Num(500)>>,                     \* 0.5, 50: qty < 100
      <<Num(5), Num(1000)>>,                    \* 0.5, 100: swapped
      <<Num(10), Num(1000)>>,                   \* 1, 100: price not < 1
      <<Num(0), Num(2000)>>,                    \* 0, 200
      <<Num(-50), Num(2000)>>,                  \* -5, 200
      <<Num(0), Num(30)>>,                      \* 0, 3
      <<Num(10000000), Num(10)>>,               \* 1_000_000, 1
      <<Num(10000001), Num(10)>>,               \* 1_000_000.1, 1
      <<Num(5), Num(10000001)>>,                \* 0.5, 1_000_000.1
      <<Null, Num(2000)>>,
      <<Num(5), Null>> }

\* (price, qty) cells of any kind
AnyPairs == NumericPairs \cup { <<TDash, Num(30)>>, <<TAbc, TDash>>, <<T02, T200>> }

DateCells == {TDate, Null}

RowCells(pairs) == {<<pq[1], pq[2], d>> : pq \in pairs, d \in DateCells}

\* The tables of at most MaxRows rows under header h with cells from rc,
\* indexed 0, 1, ... as a freshly built DataFrame is
TableOf(h, f) ==
    Table(h.cols,
          [i \in 1..Len(f) |->
              [idx |-> i - 1,
               cells |-> [j \in 1..Len(h.sel) |-> f[i][h.sel[j]]]]])

\* Row cells for a table of n rows
RowChoices(n, rc) == [1..n -> rc]

(***************************************************************************)
(* The callers: the script's pipeline, and single calls of a step          *)
(***************************************************************************)
InitWith(p, x) ==
    /\ pc = p
    /\ start = x
    /\ df = x
    /\ argOld = x
    /\ arg = x
    /\ same = TRUE
    /\ err = "none"
    /\ mid = NoTable
    /\ report = NoReport

\* df_raw = load_data(raw_path)
Init ==
    \E h \in RawHeaders : \E n \in 0..MaxRows :
        \E f \in RowChoices(n, RowCells(RawPairs)) :
            InitWith("loaded", TableOf(h, f))

\* df_clean = clean_column_names(df_raw): df.columns is assigned on the
\* argument, which is returned
CleanColumnNames ==
    /\ pc = "loaded"
    /\ pc' = "named"
    /\ argOld' = df
    /\ arg' = clean_column_names(df)
    /\ df' = clean_column_names(df)
    /\ same' = TRUE
    /\ UNCHANGED <<start, err, mid, report>>

\* df_clean = strip_whitespace(df_clean): df[col] is assigned on the
\* argument, which is returned
StripWhitespace ==
    /\ pc = "named"
    /\ pc' = "stripped"
    /\ argOld' = df
    /\ arg' = strip_whitespace(df)
    /\ df' = strip_whitespace(df)
    /\ same' = TRUE
    /\ UNCHANGED <<start, err, mid, report>>

\* df_clean = fix_numeric_values(df_clean): df["price"], df["qty"] are
\* assigned on the argument, which is returned
FixNumericValues ==
    /\ pc = "stripped"
    /\ pc' = "coerced"
    /\ argOld' = df
    /\ arg' = fix_numeric_values(df)
    /\ df' = fix_numeric_values(df)
    /\ same' = TRUE
    /\ UNCHANGED <<start, err, mid, report>>

\* df_clean = handle_missing_values(df_clean): dropna builds a new table,
\* and with no required column the argument itself is returned
HandleMissingValues ==
    /\ pc = "coerced"
    /\ pc' = "dropped"
    /\ argOld' = df
    /\ arg' = df
    /\ df' = handle_missing_values(df)
    /\ same' = (Required(df) = {})
    /\ UNCHANGED <<start, err, mid, report>>

\* df_clean = remove_invalid_rows(df_clean), which works on df.copy()
RemoveInvalidRows ==
    /\ pc = "dropped"
    /\ LET r == remove_invalid_rows(df)
       IN  /\ pc' = IF r.err = "none" THEN "cleaned" ELSE "failed"
           /\ df' = r.df
           /\ err' = r.err
           /\ mid' = r.mid
           /\ report' = r.report
    /\ argOld' = df
    /\ arg' = CallerTableAfter(df)
    /\ same' = FALSE
    /\ UNCHANGED start

\* remove_invalid_rows applied to the table it returned
RemoveInvalidRowsAgain ==
    /\ pc = "cleaned"
    /\ LET r == remove_invalid_rows(df)
       IN  /\ pc' = IF r.err = "none" THEN "recleaned" ELSE "failed"
           /\ df' = r.df
           /\ err' = r.err
           /\ mid' = r.mid
           /\ report' = r.report
    /\ argOld' = df
    /\ arg' = CallerTableAfter(df)
    /\ same' = FALSE
    /\ UNCHANGED start

Next ==
    \/ CleanColumnNames
    \/ StripWhitespace
    \/ FixNumericValues
    \/ HandleMissingValues
    \/ RemoveInvalidRows

Spec == Init /\ [][Next]_vars

\* remove_invalid_rows called on any value, then on its own result
InitEngine ==
    \/ InitWith("dropped", NotATable)
    \/ \E h \in CleanHeaders : \E n \in 0..MaxRows :
          \E f \in RowChoices(n, RowCells(AnyPairs)) :
              InitWith("dropped", TableOf(h, f))

NextEngine == RemoveInvalidRows \/ RemoveInvalidRowsAgain

SpecEngine == InitEngine /\ [][NextEngine]_vars

\* fix_numeric_values or remove_invalid_rows entered with cells of any kind,
\* the pipeline running on from there
InitCoerce ==
    \E p \in {"stripped", "dropped"} : \E n \in 0..MaxRows :
        \E f \in RowChoices(n, RowCells(AnyPairs)) :
            InitWith(p, TableOf(FullHeader, f))

NextCoerce == FixNumericValues \/ HandleMissingValues \/ RemoveInvalidRows

SpecCoerce == InitCoerce /\ [][NextCoerce]_vars

\* handle_missing_values then remove_invalid_rows on a coerced table
InitOrder ==
    \E n \in 0..MaxRows : \E f \in RowChoices(n, RowCells(NumericPairs)) :
        InitWith("coerced", TableOf(FullHeader, f))

NextOrder == HandleMissingValues \/ RemoveInvalidRows

SpecOrder == InitOrder /\ [][NextOrder]_vars

(***************************************************************************)
(* Properties                                                              *)
(***************************************************************************)
\* remove_invalid_rows has returned a table
Returned == pc \in {"cleaned", "recleaned"} /\ err = "none"

PriceOf(t, r) == Get(t, r, ColPrice)

QtyOf(t, r) == Get(t, r, ColQty)

RowIdx(t) == 1..Len(t.rows)

\* the row of t labelled k, if any
HasIdx(t, k) == \E i \in RowIdx(t) : t.rows[i].idx = k

\* a row of the table after the swap step passes both filters
Passes(t, r) ==
    /\ IsNum(PriceOf(t, r)) /\ PriceOf(t, r).v > 0
    /\ IsNum(QtyOf(t, r)) /\ QtyOf(t, r).v > 0
    /\ PriceOf(t, r).v <= 10000000
    /\ QtyOf(t, r).v <= 10000000

\* C1: every row of the table remove_invalid_rows returns has numeric,
\* non-null price and qty with 0 < price <= 1_000_000 and
\* 0 < qty <= 1_000_000, and no two returned rows are equal in all columns.
C1_OutputInvariants ==
    Returned =>
        /\ \A i \in RowIdx(df) :
              /\ IsNum(PriceOf(df, df.rows[i]))
              /\ IsNum(QtyOf(df, df.rows[i]))
              /\ PriceOf(df, df.rows[i]).v > 0
              /\ PriceOf(df, df.rows[i]).v <= 10000000
              /\ QtyOf(df, df.rows[i]).v > 0
              /\ QtyOf(df, df.rows[i]).v <= 10000000
        /\ \A i, j \in RowIdx(df) :
              i # j => df.rows[i].cells # df.rows[j].cells

\* a run that dropped a non-positive row and kept a row at the ceiling
C1_Witness ==
    /\ pc = "cleaned"
    /\ Count(argOld) = 2
    /\ Count(df) = 1
    /\ report.removed_missing_or_nonpositive = 1
    /\ PriceOf(df, df.rows[1]) = Num(10000000)

\* C2: remove_invalid_rows applied to its own result returns an equal table
\* and that second run swaps no row and removes no row.
C2_Idempotent ==
    pc = "recleaned" =>
        /\ err = "none"
        /\ df = argOld
        /\ mid = argOld
        /\ report.swapped = 0
        /\ report.removed_missing_or_nonpositive = 0
        /\ report.removed_outliers = 0
        /\ report.duplicates_removed = 0
        /\ report.final_count = report.initial_count

\* the second run on a result whose row was swapped by the first run
C2_Witness ==
    /\ pc = "recleaned"
    /\ Count(start) = 2
    /\ Count(df) = 1
    /\ \E i \in RowIdx(start) :
          /\ PriceOf(start, start.rows[i]) = Num(2)
          /\ QtyOf(start, start.rows[i]) = Num(2000)
          /\ df.rows[1].idx = start.rows[i].idx
    /\ PriceOf(df, df.rows[1]) = Num(2000)
    /\ QtyOf(df, df.rows[1]) = Num(2)

\* C3: the counts of a completed run satisfy initial_count - final_count =
\* removed_missing_or_nonpositive + removed_outliers + duplicates_removed,
\* the first counted on the table after the swap step, the second among the
\* rows that passed the positivity filter, the third among the rows that
\* passed both filters.
C3_CountAccounting ==
    Returned =>
        LET Positive(r) == Gt(PriceOf(mid, r), 0) /\ Gt(QtyOf(mid, r), 0)
            Outlier(r)  == Gt(PriceOf(mid, r), 10000000) \/ Gt(QtyOf(mid, r), 10000000)
            Kept(r)     == Positive(r) /\ ~Outlier(r)
        IN  /\ report.initial_count = Count(argOld)
            /\ report.final_count = Count(df)
            /\ report.initial_count - report.final_count =
                  report.removed_missing_or_nonpositive
                    + report.removed_outliers + report.duplicates_removed
            /\ report.removed_missing_or_nonpositive =
                  Cardinality({i \in RowIdx(mid) : ~Positive(mid.rows[i])})
            /\ report.removed_outliers =
                  Cardinality({i \in RowIdx(mid) :
                      Positive(mid.rows[i]) /\ Outlier(mid.rows[i])})
            /\ report.duplicates_removed =
                  Cardinality({i \in RowIdx(mid) :
                      /\ Kept(mid.rows[i])
                      /\ \E j \in 1..(i - 1) :
                            /\ Kept(mid.rows[j])
                            /\ mid.rows[j].cells = mid.rows[i].cells})

\* a run that dropped one row as non-positive and one as an outlier
C3_Witness ==
    /\ pc = "cleaned"
    /\ report.initial_count = 2
    /\ report.removed_missing_or_nonpositive = 1
    /\ report.removed_outliers = 1
    /\ report.final_count = 0

\* the swap condition as the claim words it, on coerced cells
SwapCondition(p, q) ==
    /\ IsNum(p)
    /\ IsNum(q)
    /\ p.v < 10
    /\ q.v >= 1000
    /\ q.v > p.v * 10

C5_Errors ==
    (pc \in {"cleaned", "failed"}) =>
        /\ argOld.kind # "table"
              => err = "TypeError" /\ df = NoTable /\ arg = argOld
        /\ (argOld.kind = "table"
              /\ (~HasCol(argOld, ColPrice) \/ ~HasCol(argOld, ColQty)))
              => err = "KeyError" /\ df = NoTable /\ arg = argOld
        /\ (argOld.kind = "table"
              /\ HasCol(argOld, ColPrice) /\ HasCol(argOld, ColQty))
              => err = "none" /\ df.kind = "table"
        /\ (pc = "failed") = (err # "none")

\* a table with rows and no qty column was refused
C5_Witness ==
    /\ pc = "failed"
    /\ err = "KeyError"
    /\ argOld.kind = "table"
    /\ HasCol(argOld, ColPrice)
    /\ ~HasCol(argOld, ColQty)
    /\ Count(argOld) = 2
    /\ arg = argOld

\* C6: in the script's pipeline, when the table has a date_sold column,
\* every row whose date_sold cell is null in the loaded table is absent from
\* the cleaned output, whatever its price and qty.
C6_NullDateDropped ==
    (pc = "cleaned" /\ HasCol(df, ColDateSold)) =>
        \A i \in RowIdx(start) :
            IsNull(start.rows[i].cells[ColOf(df, ColDateSold)])
                => ~HasIdx(df, start.rows[i].idx)

\* the number the coercion is to give for a cell, stated case by case
CoercedValue(c) ==
    CASE c = TDash -> Null
      [] c = TAbc  -> Null
      [] c = T02   -> Num(2)
      [] c = T200  -> Num(2000)
      [] OTHER     -> c

\* C7: numeric coercion never raises and never changes the number of rows:
\* in fix_numeric_values and inside remove_invalid_rows a "-" or non-numeric
\* text becomes null and a parseable cell its numeric value, and every row
\* left with a null price or qty is absent from the final output.
C7_CoercionSafety ==
    /\ err = "none"
    /\ pc # "failed"
    /\ pc = "coerced" =>
          /\ Count(df) = Count(argOld)
          /\ df.cols = argOld.cols
          /\ \A i \in RowIdx(argOld) :
                /\ df.rows[i].idx = argOld.rows[i].idx
                /\ PriceOf(df, df.rows[i]) = CoercedValue(PriceOf(argOld, argOld.rows[i]))
                /\ QtyOf(df, df.rows[i]) = CoercedValue(QtyOf(argOld, argOld.rows[i]))
                /\ ~IsText(PriceOf(df, df.rows[i]))
                /\ ~IsText(QtyOf(df, df.rows[i]))
    /\ pc = "cleaned" =>
          /\ Count(mid) = Count(argOld)
          /\ \A i \in RowIdx(argOld) :
                LET p == CoercedValue(PriceOf(argOld, argOld.rows[i]))
                    q == CoercedValue(QtyOf(argOld, argOld.rows[i]))
                    m == mid.rows[i]
                IN  /\ m.idx = argOld.rows[i].idx
                    /\ <<PriceOf(mid, m), QtyOf(mid, m)>> \in {<<p, q>>, <<q, p>>}
                    /\ (IsNull(p) \/ IsNull(q))
                          => /\ PriceOf(mid, m) = p
                             /\ QtyOf(mid, m) = q
                             /\ ~HasIdx(df, m.idx)
          /\ \A i \in RowIdx(start) :
                (\/ IsNull(CoercedValue(PriceOf(start, start.rows[i])))
                 \/ IsNull(CoercedValue(QtyOf(start, start.rows[i]))))
                    => ~HasIdx(df, start.rows[i].idx)
          /\ \A k \in RowIdx(df) :
                IsNum(PriceOf(df, df.rows[k])) /\ IsNum(QtyOf(df, df.rows[k]))

\* remove_invalid_rows itself coerced an unparseable price to null and
\* dropped the row, and parsed the text cells of the row it kept
C7_Witness ==
    /\ pc = "cleaned"
    /\ argOld = start
    /\ Count(start) = 2
    /\ PriceOf(start, start.rows[1]) = TAbc
    /\ QtyOf(start, start.rows[1]) = TDash
    /\ PriceOf(start, start.rows[2]) = T02
    /\ QtyOf(start, start.rows[2]) = T200
    /\ IsNull(PriceOf(mid, mid.rows[1]))
    /\ Count(df) = 1
    /\ PriceOf(df, df.rows[1]) = Num(2000)

Survives(i) ==
    /\ Passes(mid, mid.rows[i])
    /\ \A j \in 1..(i - 1) :
          Passes(mid, mid.rows[j]) => mid.rows[j].cells # mid.rows[i].cells

\* position in the table after the swap step of the row labelled k
MidPos(k) == CHOOSE i \in RowIdx(mid) : mid.rows[i].idx = k

\* C9: the returned table holds, in input order, exactly the rows of the
\* swap-repaired input that pass the positivity and outlier filters and are
\* not equal in all columns to an earlier surviving row.
C9_OrderedSubsequence ==
    Returned =>
        /\ df.cols = mid.cols
        /\ \A k \in RowIdx(df) :
              \E i \in RowIdx(mid) : mid.rows[i] = df.rows[k] /\ Survives(i)
        /\ \A i \in RowIdx(mid) :
              Survives(i) => \E k \in RowIdx(df) : df.rows[k] = mid.rows[i]
        /\ \A k1, k2 \in RowIdx(df) :
              k1 < k2 => MidPos(df.rows[k1].idx) < MidPos(df.rows[k2].idx)

\* two rows that differ in the input and are equal once the first is
\* swapped: the first is the one returned
C9_Witness ==
    /\ pc = "cleaned"
    /\ Count(argOld) = 2
    /\ argOld.rows[1].cells # argOld.rows[2].cells
    /\ mid.rows[1].cells = mid.rows[2].cells
    /\ report.swapped = 1
    /\ df.rows = <<mid.rows[1]>>

\* The spec's step order on a coerced table: swap step, then the
\* missing-value drop, then the positivity filter and the rest.
SwapThenDrop(t) ==
    LET sw == SwapStep(t)
        m  == DropNa(sw, {ColPrice, ColQty, ColDateSold})
    IN  [df |-> drop_duplicates(FilterOutliers(FilterValid(m))),
         swapped |-> SwapCount(t)]

\* rows of a coerced table with a null date_sold that meet the swap condition
NullDateSwaps(t) ==
    Cardinality({i \in RowIdx(t) :
        /\ IsNull(Get(t, t.rows[i], ColDateSold))
        /\ SwapCondition(PriceOf(t, t.rows[i]), QtyOf(t, t.rows[i]))})

=============================================================================
